---------------------------- MODULE Spec2Model ----------------------------
(***************************************************************************)
(* Self-diagnosing communication link: the stochastic link simulator       *)
(* (CommLinkSimulator), the window aggregator (windowFrom), the rule-based *)
(* diagnostic engine (DiagnosticEngine.diagnose) and the driver that wires *)
(* them together, all of src/app.js.                                       *)
(*                                                                         *)
(* Numbers.  JavaScript numbers are IEEE-754 doubles; the model keeps them *)
(* in fixed point, one unit per quantity:                                  *)
(*   fault levels            tenths          (1.0  is 10)                  *)
(*   sync_loss_prob, uniform hundredths      (1.0  is 100)                 *)
(*   randn()                 whole standard deviations                     *)
(*   snr_db, latency_ms      tenths of a dB / of a ms                      *)
(*   ber                     1e-9 (a sample's ber of 0.5 is 500000000)     *)
(*   exponents of 10 ** x    hundredths of a decade                        *)
(*   window means, std       thousandths of a dB / ms / retry; ber in 1e-9 *)
(*   scores                  thousandths                                   *)
(*   probabilities           exact fractions num/den                       *)
(* The three special doubles NaN, +Infinity and -Infinity are kept as      *)
(* three integers outside the finite range, and every arithmetic operator  *)
(* of the simulator follows IEEE-754 on them.                              *)
(***************************************************************************)
EXTENDS Integers, Sequences, FiniteSets

VARIABLES
    t,             \* CommLinkSimulator.t
    fault_config,  \* CommLinkSimulator.fault_config
    sample,        \* what the simulator's last call returned: <<s>> after
                   \* step(), <<>> (undefined) after setFaultConfig(cfg)
    history,       \* the driver's history array
    diagnoses,     \* the driver's diagnoses array
    running,       \* the driver's running flag
    timer,         \* the driver's timer: 0 is null, otherwise an interval id
    liveTimers,    \* the interval ids the browser still fires
    windowSize,    \* the windowSize last passed to windowFrom
    window,        \* <<>> or <<w>>: the WindowStats last handed to diagnose
    diag           \* <<>> or <<d>>: the Diagnosis last returned by diagnose

vars == <<t, fault_config, sample, history, diagnoses, running, timer,
          liveTimers, windowSize, window, diag>>

---------------------------------------------------------------------------
(* Bounds of the model *)

MaxRandn == 2      \* |randn()| drawn from {-MaxRandn, MaxRandn}
MaxPoisson == 4    \* poisson(lambda > 0) drawn from {0, MaxPoisson}
MaxT == 2          \* step() calls explored by SpecSim
PosLevel == 15     \* the finite positive fault level SpecSim installs (1.5)
NegLevel == 10     \* magnitude of the negative fault level SpecSim installs

---------------------------------------------------------------------------
(* IEEE-754 special values and arithmetic *)

NaN == -2000000001
PInf == 2000000000
NInf == -2000000000

IsNaN(x) == x = NaN
IsInf(x) == x = PInf \/ x = NInf
IsFin(x) == ~IsNaN(x) /\ ~IsInf(x)

\* JavaScript comparisons: every comparison with NaN is false.
Gt(a, b) == ~IsNaN(a) /\ ~IsNaN(b) /\ a > b
Lt(a, b) == ~IsNaN(a) /\ ~IsNaN(b) /\ a < b
Ge(a, b) == ~IsNaN(a) /\ ~IsNaN(b) /\ a >= b
Le(a, b) == ~IsNaN(a) /\ ~IsNaN(b) /\ a <= b

FNeg(a) == IF IsNaN(a) THEN NaN
           ELSE IF a = PInf THEN NInf
           ELSE IF a = NInf THEN PInf
           ELSE 0 - a

FAdd(a, b) ==
    IF IsNaN(a) \/ IsNaN(b) THEN NaN
    ELSE IF (a = PInf /\ b = NInf) \/ (a = NInf /\ b = PInf) THEN NaN
    ELSE IF a = PInf \/ b = PInf THEN PInf
    ELSE IF a = NInf \/ b = NInf THEN NInf
    ELSE a + b

FSub(a, b) == FAdd(a, FNeg(b))

FMul(a, b) ==
    IF IsNaN(a) \/ IsNaN(b) THEN NaN
    ELSE IF IsInf(a) \/ IsInf(b)
         THEN IF a = 0 \/ b = 0 THEN NaN
              ELSE IF (a > 0) = (b > 0) THEN PInf ELSE NInf
    ELSE a * b

\* Math.max / Math.min: NaN if either argument is NaN.
FMax(a, b) == IF IsNaN(a) \/ IsNaN(b) THEN NaN ELSE IF a > b THEN a ELSE b
FMin(a, b) == IF IsNaN(a) \/ IsNaN(b) THEN NaN ELSE IF a < b THEN a ELSE b

FAbs(a) == IF IsNaN(a) THEN NaN ELSE IF IsInf(a) THEN PInf
           ELSE IF a < 0 THEN 0 - a ELSE a

\* Math.round of a value held in tenths: the nearest integer, halves up;
\* NaN and the infinities are returned as they are.
RoundTenths(x) == IF IsFin(x) THEN (x + 5) \div 10 ELSE x

---------------------------------------------------------------------------
(* BER arithmetic: a running ber is m * 10^(e/100) in units of 1e-9, so    *)
(* that ber *= 10 ** x adds x to e.  e = PInf stands for an infinite ber,  *)
(* e = NInf for a ber of 0, e = NaN for NaN.                               *)

Pow10Table ==
    << 1000, 1023, 1047, 1072, 1096, 1122, 1148, 1175, 1202, 1230,
       1259, 1288, 1318, 1349, 1380, 1413, 1445, 1479, 1514, 1549,
       1585, 1622, 1660, 1698, 1738, 1778, 1820, 1862, 1905, 1950,
       1995, 2042, 2089, 2138, 2188, 2239, 2291, 2344, 2399, 2455,
       2512, 2570, 2630, 2692, 2754, 2818, 2884, 2951, 3020, 3090,
       3162, 3236, 3311, 3388, 3467, 3548, 3631, 3715, 3802, 3890,
       3981, 4074, 4169, 4266, 4365, 4467, 4571, 4677, 4786, 4898,
       5012, 5129, 5248, 5370, 5495, 5623, 5754, 5888, 6026, 6166,
       6310, 6457, 6607, 6761, 6918, 7079, 7244, 7413, 7586, 7762,
       7943, 8128, 8318, 8511, 8710, 8913, 9120, 9333, 9550, 9772 >>

BerCap == 500000000      \* 0.5
BerFloor == 1            \* 1e-9
BaselineBerNano == 1000  \* baseline_ber = 1e-6

RECURSIVE MulPow10Sat(_, _)
\* f * 10^q for q >= 0, saturating at BerCap (anything above is clipped).
MulPow10Sat(f, q) ==
    IF q = 0 THEN (IF f > BerCap THEN BerCap ELSE f)
    ELSE IF f >= BerCap \div 10 THEN BerCap
    ELSE IF f = 0 THEN 0
    ELSE MulPow10Sat(f * 10, q - 1)

RECURSIVE DivPow10(_, _)
DivPow10(f, q) == IF q = 0 \/ f = 0 THEN f ELSE DivPow10(f \div 10, q - 1)

\* m * 10^(e/100) for finite e, in units of 1e-9, saturating at BerCap.
Scale(m, e) ==
    LET k  == e % 100
        q  == e \div 100
        big == m >= 100000
        m1 == IF big THEN m \div 10000 ELSE m
        q1 == IF big THEN q + 4 ELSE q
        f  == (m1 * Pow10Table[k + 1]) \div 1000
    IN  IF q1 >= 0 THEN MulPow10Sat(f, q1) ELSE DivPow10(f, 0 - q1)

BerMul(b, x) == [m |-> b.m, e |-> FAdd(b.e, x)]

\* ber = Math.min(Math.max(ber, 1e-9), 0.5)
BerClip(b) ==
    IF IsNaN(b.e) THEN NaN
    ELSE IF b.e = PInf THEN BerCap
    ELSE IF b.e = NInf THEN BerFloor
    ELSE LET v == Scale(b.m, b.e)
         IN  IF v < BerFloor THEN BerFloor ELSE IF v > BerCap THEN BerCap ELSE v

---------------------------------------------------------------------------
(* Random primitives: the values one call may return, bounded *)

\* randn(): never exactly 0 (u < 1 and cos(2 pi v) is not 0 in doubles).
RandnVals == {0 - MaxRandn, MaxRandn}

\* Math.random(), in hundredths: a value in [0, 1).
UniformVals == {0, 99}

\* poisson(lambda): 0 when lambda <= 0 (and when lambda is NaN: the loop
\* leaves after one round); any count otherwise, here the drawn one.
poisson(lambda, drawn) == IF Gt(lambda, 0) THEN drawn ELSE 0

PoissonVals == {0, MaxPoisson}

\* One value per call site of step(), in the order of the calls.
DrawProfile(zs, zb, zl, p, u1, u2) ==
    [ n_snr0 |-> zs, n_ber0 |-> zb, n_lat0 |-> zl,
      n_noise_snr |-> zs, n_noise_ber |-> zb,
      n_jam_snr |-> zs, n_jam_ber |-> zb, p_jam |-> p, n_jam_lat |-> zl,
      u_sync |-> u1, u_ber |-> u2, n_sync_snr |-> zs, n_sync_lat |-> zl,
      p_sync |-> p,
      n_cong_lat |-> zl, p_cong |-> p, n_cong_ber |-> zb,
      n_fad_snr |-> zs, n_fad_ber |-> zb ]

\* The draws explored: within one step the Gaussian draws that feed the same
\* metric agree, as do the Poisson draws.
Draws ==
    { DrawProfile(zs, zb, zl, p, u1, u2) :
        zs \in RandnVals, zb \in RandnVals, zl \in RandnVals,
        p \in PoissonVals, u1 \in UniformVals, u2 \in UniformVals }

---------------------------------------------------------------------------
(* FaultType, FaultConfig, CommLinkSimulator *)

NOISE_SPIKE == "noise_spike"
WIDEBAND_JAMMER == "wideband_jammer"
SYNC_LOSS == "sync_loss"
CONGESTION == "congestion"
FADING == "fading"

FaultConfig == [ noise_spike_level |-> 0, jammer_level |-> 0,
                 sync_loss_prob |-> 0, congestion_level |-> 0,
                 fading_severity |-> 0 ]

baseline_snr_db == 250       \* 25.0 dB
baseline_latency_ms == 200   \* 20.0 ms
baseline_retries == 0

\* Lines 346-349: the baseline draw.
StepBase(d) ==
    [ snr |-> FAdd(baseline_snr_db, FMul(d.n_snr0, 3)),
      ber |-> LET b == [m |-> BaselineBerNano, e |-> FMul(d.n_ber0, 20)]
              IN  IF IsFin(b.e) /\ Scale(b.m, b.e) < BerFloor
                  THEN [m |-> BerFloor, e |-> 0] ELSE b,
      latency |-> FAdd(baseline_latency_ms, FMul(d.n_lat0, 10)),
      retries |-> baseline_retries,
      sync_outage |-> FALSE,
      active_faults |-> << >> ]


\* StepNoise with the guard written >= 0.
StepNoiseNonNegative(s, cfg, d) ==
    IF Ge(cfg.noise_spike_level, 0)
    THEN LET noise == cfg.noise_spike_level
         IN [ s EXCEPT
                !.snr = FSub(@, FAdd(FMul(8, noise),
                                     FMul(d.n_noise_snr, FMul(1, noise)))),
                !.ber = BerMul(@, FAdd(FMul(20, noise),
                                       FMul(d.n_noise_ber, FMul(5, noise)))),
                !.active_faults = Append(@, NOISE_SPIKE) ]
    ELSE s

\* Lines 351-357: noise spike.
StepNoise(s, cfg, d) ==
    IF Gt(cfg.noise_spike_level, 0)
    THEN LET noise == cfg.noise_spike_level
         IN [ s EXCEPT
                !.snr = FSub(@, FAdd(FMul(8, noise),
                                     FMul(d.n_noise_snr, FMul(1, noise)))),
                !.ber = BerMul(@, FAdd(FMul(20, noise),
                                       FMul(d.n_noise_ber, FMul(5, noise)))),
                !.active_faults = Append(@, NOISE_SPIKE) ]
    ELSE s

\* Lines 359-367: wideband jammer.
StepJammer(s, cfg, d) ==
    IF Gt(cfg.jammer_level, 0)
    THEN LET jam == cfg.jammer_level
         IN [ s EXCEPT
                !.snr = FSub(@, FAdd(FMul(15, jam),
                                     FMul(d.n_jam_snr, FMul(2, jam)))),
                !.ber = BerMul(@, FAdd(FMul(30, jam),
                                       FMul(d.n_jam_ber, FMul(5, jam)))),
                !.retries = FAdd(@, FMax(0, RoundTenths(
                                FAdd(FMul(5, jam),
                                     10 * poisson(FMul(2, jam), d.p_jam))))),
                !.latency = FAdd(@, FAdd(FMul(5, jam),
                                         FMul(d.n_jam_lat, FMul(2, jam)))),
                !.active_faults = Append(@, WIDEBAND_JAMMER) ]
    ELSE s

\* Lines 369-378: the sync-loss trial and, when it hits, the outage.
StepSync(s, cfg, d) ==
    IF Gt(cfg.sync_loss_prob, 0) /\ Lt(d.u_sync, cfg.sync_loss_prob)
    THEN [ s EXCEPT
             !.sync_outage = TRUE,
             !.ber = [m |-> 100000000 + 8000000 * d.u_ber, e |-> 0],
             !.snr = FAdd(baseline_snr_db, FMul(d.n_sync_snr, 10)),
             !.latency = FAdd(@, FAdd(2000, FMul(d.n_sync_lat, 200))),
             !.retries = FAdd(@, 5 + poisson(3, d.p_sync)),
             !.active_faults = Append(@, SYNC_LOSS) ]
    ELSE s


\* StepCongestion without the test of sync_outage.
StepCongestionUnguarded(s, cfg, d) ==
    IF Gt(cfg.congestion_level, 0)
    THEN LET cong == cfg.congestion_level
         IN [ s EXCEPT
                !.latency = FAdd(@, FAdd(FMul(40, cong),
                                         FMul(d.n_cong_lat, FMul(10, cong)))),
                !.retries = FAdd(@, FMax(0, RoundTenths(
                                FAdd(FMul(3, cong),
                                     10 * poisson(FMul(3, cong), d.p_cong))))),
                !.ber = BerMul(@, FAdd(FMul(3, cong),
                                       FMul(d.n_cong_ber, FMul(1, cong)))),
                !.active_faults = Append(@, CONGESTION) ]
    ELSE s

\* Lines 380-387: congestion.
StepCongestion(s, cfg, d) ==
    IF Gt(cfg.congestion_level, 0) /\ ~s.sync_outage
    THEN LET cong == cfg.congestion_level
         IN [ s EXCEPT
                !.latency = FAdd(@, FAdd(FMul(40, cong),
                                         FMul(d.n_cong_lat, FMul(10, cong)))),
                !.retries = FAdd(@, FMax(0, RoundTenths(
                                FAdd(FMul(3, cong),
                                     10 * poisson(FMul(3, cong), d.p_cong))))),
                !.ber = BerMul(@, FAdd(FMul(3, cong),
                                       FMul(d.n_cong_ber, FMul(1, cong)))),
                !.active_faults = Append(@, CONGESTION) ]
    ELSE s

\* Lines 389-395: fading.
StepFading(s, cfg, d) ==
    IF Gt(cfg.fading_severity, 0) /\ ~s.sync_outage
    THEN LET fad == cfg.fading_severity
         IN [ s EXCEPT
                !.snr = FSub(@, FAdd(FMul(5, fad),
                                     FAbs(FMul(d.n_fad_snr, FMul(3, fad))))),
                !.ber = BerMul(@, FAdd(FMul(15, fad),
                                       FMul(d.n_fad_ber, FMul(3, fad)))),
                !.active_faults = Append(@, FADING) ]
    ELSE s

\* A step that advances the tick by two.
StepTickSkips(tt) == tt + 2

\* Line 342: this.t += 1
StepTick(tt) == tt + 1

\* Lines 397-410: clip to realistic ranges and build the Sample.
StepClip(s, tt) ==
    [ t |-> tt,
      snr_db |-> FMin(FMax(s.snr, -50), 400),
      ber |-> BerClip(s.ber),
      latency_ms |-> FMax(10, s.latency),
      retries |-> FMax(0, RoundTenths(FMul(10, s.retries))),
      active_faults |-> s.active_faults ]

\* CommLinkSimulator.step(): the Sample returned at tick tt under cfg when
\* the random primitives return d.
StepSample(cfg, tt, d) ==
    StepClip(
      StepFading(
        StepCongestion(
          StepSync(
            StepJammer(
              StepNoise(StepBase(d), cfg, d), cfg, d), cfg, d), cfg, d),
        cfg, d),
      tt)

---------------------------------------------------------------------------
(* Window aggregation: mean, std, maxVal, windowFrom *)

WindowSize == 20     \* simulateSteps: windowFrom(history, 20)

RECURSIVE SumQuot(_, _, _)
SumQuot(arr, k, n) ==
    IF arr = << >> THEN 0
    ELSE ((k * Head(arr)) \div n) + SumQuot(Tail(arr), k, n)

RECURSIVE SumRem(_, _, _)
SumRem(arr, k, n) ==
    IF arr = << >> THEN 0
    ELSE ((k * Head(arr)) % n) + SumRem(Tail(arr), k, n)

\* (k * sum of arr) / n rounded down, for finite entries; the quotients and
\* remainders are summed apart so that no partial sum leaves 32 bits.
ScaledAverage(arr, k, n) == SumQuot(arr, k, n) + (SumRem(arr, k, n) \div n)

HasNaN(arr) == \E i \in 1..Len(arr) : IsNaN(arr[i])
HasPInf(arr) == \E i \in 1..Len(arr) : arr[i] = PInf
HasNInf(arr) == \E i \in 1..Len(arr) : arr[i] = NInf
AllFin(arr) == \A i \in 1..Len(arr) : IsFin(arr[i])

\* mean(arr), k model units of the result per unit of the entries.
mean(arr, k) ==
    IF Len(arr) = 0 THEN NaN
    ELSE IF HasNaN(arr) \/ (HasPInf(arr) /\ HasNInf(arr)) THEN NaN
    ELSE IF HasPInf(arr) THEN PInf
    ELSE IF HasNInf(arr) THEN NInf
    ELSE ScaledAverage(arr, k, Len(arr))

RECURSIVE IsqrtBetween(_, _, _)
\* The largest r in lo..hi with r * r <= v.
IsqrtBetween(v, lo, hi) ==
    IF lo >= hi THEN lo
    ELSE LET mid == (lo + hi + 1) \div 2
         IN  IF mid * mid <= v THEN IsqrtBetween(v, mid, hi)
             ELSE IsqrtBetween(v, lo, mid - 1)

Isqrt(v) == IsqrtBetween(v, 0, 46340)

\* std(arr) of entries in tenths, in thousandths: the population standard
\* deviation.  An infinite entry makes the mean infinite and x - m NaN.
\* Deviations are squared in hundredths.
std(arr) ==
    IF Len(arr) = 0 THEN NaN
    ELSE IF ~AllFin(arr) THEN NaN
    ELSE LET m  == mean(arr, 100)
             sq == [i \in 1..Len(arr) |->
                      LET dv == (100 * arr[i] - m) \div 10 IN dv * dv]
         IN  10 * Isqrt(ScaledAverage(sq, 1, Len(arr)))

RECURSIVE MaxFrom(_, _)
\* arr.reduce((a, b) => (b > a ? b : a), acc)
MaxFrom(arr, acc) ==
    IF arr = << >> THEN acc
    ELSE MaxFrom(Tail(arr), IF Gt(Head(arr), acc) THEN Head(arr) ELSE acc)


\* maxVal without the test for an empty array.
maxValNoEmptyTest(arr) == MaxFrom(arr, NInf)

maxVal(arr) == IF Len(arr) = 0 THEN NaN ELSE MaxFrom(arr, NInf)

\* history.slice(-windowSize): a negative start counts from the end, -0 is
\* 0, a positive start (windowSize < 0) counts from the front.
SliceFrom(h, start) ==
    LET n == Len(h)
        k == IF start < 0 THEN (IF n + start > 0 THEN n + start ELSE 0)
             ELSE (IF start < n THEN start ELSE n)
    IN  SubSeq(h, k + 1, n)

windowFrom(h, size) ==
    LET slice == SliceFrom(h, 0 - size)
        snr == [i \in 1..Len(slice) |-> slice[i].snr_db]
        ber == [i \in 1..Len(slice) |-> slice[i].ber]
        lat == [i \in 1..Len(slice) |-> slice[i].latency_ms]
        ret == [i \in 1..Len(slice) |-> slice[i].retries]
    IN  [ snr_mean |-> mean(snr, 100),
          snr_std |-> std(snr),
          ber_mean |-> mean(ber, 1),
          ber_max |-> maxVal(ber),
          latency_mean |-> mean(lat, 100),
          retries_mean |-> mean(ret, 1000) ]

---------------------------------------------------------------------------
(* RootCause and DiagnosticEngine *)

HEALTHY == "healthy"
UNKNOWN == "unknown"

good_snr_db == 20000
moderate_snr_db == 12000
bad_snr_db == 8000
good_ber == 10000          \* 1e-5
moderate_ber == 1000000    \* 1e-3
latency_warn_ms == 80000
latency_bad_ms == 160000
retries_warn == 1000

\* a / c for a finite c > 0, rounded down; NaN and infinities pass through.
FDiv(a, c) == IF IsFin(a) THEN a \div c ELSE a

\* base + weight * level, all in thousandths.
Score(base, weight, level) == base + ((weight * level) \div 1000)

Evidence(cause, sc) == [root_cause |-> cause, score |-> sc]

\* HealthyRule without the test of snr_mean.
HealthyRuleIgnoringSnr(w) ==
    IF /\ Lt(w.ber_max, good_ber)
       /\ Lt(w.latency_mean, latency_warn_ms)
       /\ Le(w.retries_mean, retries_warn)
    THEN << Evidence(HEALTHY, 1000) >> ELSE << >>

\* Lines 466-478
HealthyRule(w) ==
    IF /\ Gt(w.snr_mean, good_snr_db)
       /\ Lt(w.ber_max, good_ber)
       /\ Lt(w.latency_mean, latency_warn_ms)
       /\ Le(w.retries_mean, retries_warn)
    THEN << Evidence(HEALTHY, 1000) >> ELSE << >>

\* Lines 480-493
NoiseRule(w) ==
    IF /\ Lt(w.snr_mean, good_snr_db)
       /\ Gt(w.snr_std, 1500)
       /\ Gt(w.ber_max, moderate_ber)
       /\ Lt(w.latency_mean, latency_bad_ms)
    THEN LET severity == FMin(1000, FDiv(FSub(good_snr_db, w.snr_mean), 10))
         IN  << Evidence(NOISE_SPIKE, Score(400, 600, severity)) >>
    ELSE << >>

\* Lines 495-507
JammerRule(w) ==
    IF /\ Lt(w.snr_mean, moderate_snr_db)
       /\ Gt(w.ber_mean, moderate_ber)
       /\ Ge(w.retries_mean, retries_warn)
    THEN LET jammer_strength ==
                 FMin(1000, FDiv(FSub(moderate_snr_db, w.snr_mean), 8))
         IN  << Evidence(WIDEBAND_JAMMER, Score(500, 500, jammer_strength)) >>
    ELSE << >>

\* Lines 509-517
SyncRule(w) ==
    IF Gt(w.ber_max, 50000000) /\ Ge(w.snr_mean, moderate_snr_db)
    THEN LET outage_severity ==
                 FMin(1000, FDiv(FSub(w.ber_max, 50000000), 250000))
         IN  << Evidence(SYNC_LOSS, Score(600, 400, outage_severity)) >>
    ELSE << >>

\* Lines 519-531
CongestionRule(w) ==
    IF /\ Gt(w.latency_mean, latency_warn_ms)
       /\ Gt(w.retries_mean, retries_warn)
       /\ Gt(w.snr_mean, bad_snr_db)
    THEN LET cong_level ==
                 FMin(1000, FDiv(FSub(w.latency_mean, latency_warn_ms), 120))
         IN  << Evidence(CONGESTION, Score(400, 600, cong_level)) >>
    ELSE << >>

\* Lines 533-546
FadingRule(w) ==
    IF /\ Lt(w.snr_mean, good_snr_db)
       /\ Gt(w.snr_std, 2000)
       /\ Gt(w.ber_mean, good_ber)
       /\ Lt(w.latency_mean, latency_bad_ms)
    THEN LET fade_level == FMin(1000, FDiv(w.snr_std, 5))
         IN  << Evidence(FADING, Score(300, 700, fade_level)) >>
    ELSE << >>

\* The evidences array after the six rules, in the order they are tried.
RuleEvidences(w) ==
    HealthyRule(w) \o NoiseRule(w) \o JammerRule(w) \o SyncRule(w)
        \o CongestionRule(w) \o FadingRule(w)

\* scores[cause] = (scores[cause] || 0) + score: scores is kept as the
\* sequence of its entries, in the insertion order Object.entries reports.
AddScore(scores, cause, sc) ==
    IF \E i \in 1..Len(scores) : scores[i].cause = cause
    THEN [i \in 1..Len(scores) |->
            IF scores[i].cause = cause
            THEN [scores[i] EXCEPT !.score = @ + sc] ELSE scores[i]]
    ELSE Append(scores, [cause |-> cause, score |-> sc])

\* scores[cause] = score
SetScore(scores, cause, sc) ==
    IF \E i \in 1..Len(scores) : scores[i].cause = cause
    THEN [i \in 1..Len(scores) |->
            IF scores[i].cause = cause
            THEN [scores[i] EXCEPT !.score = sc] ELSE scores[i]]
    ELSE Append(scores, [cause |-> cause, score |-> sc])

RECURSIVE Aggregate(_, _)
\* Lines 548-551
Aggregate(evidences, scores) ==
    IF evidences = << >> THEN scores
    ELSE Aggregate(Tail(evidences),
                   AddScore(scores, Head(evidences).root_cause,
                            Head(evidences).score))


\* Truthy as if an empty array were falsy.
TruthyWhenNonEmpty(arr) == Len(arr) > 0

\* An array is an object, and every object is truthy, the empty array too.
Truthy(arr) == TRUE

\* Lines 553-560: the second healthy branch.
SecondHealthy(st, w) ==
    IF ~Truthy(st.evidences)
       /\ Lt(w.ber_max, moderate_ber) /\ Gt(w.snr_mean, good_snr_db)
    THEN [ scores |-> SetScore(st.scores, HEALTHY, 800),
           evidences |-> Append(st.evidences, Evidence(HEALTHY, 800)) ]
    ELSE st

\* Lines 562-569: the unknown fallback.
UnknownFallback(st) ==
    IF Len(st.scores) = 0
    THEN [ scores |-> << [cause |-> UNKNOWN, score |-> 1000] >>,
           evidences |-> Append(st.evidences, Evidence(UNKNOWN, 1000)) ]
    ELSE st

RECURSIVE SumScores(_)
\* Object.values(scores).reduce((a, b) => a + b, 0)
SumScores(scores) ==
    IF scores = << >> THEN 0 ELSE Head(scores).score + SumScores(Tail(scores))


\* Before with the comparator's operands exchanged: an ascending sort.
BeforeAscending(b, a) == a.num * b.den > b.num * a.den

\* Before that also moves b ahead of an entry it ties with.
BeforeOrTied(b, a) == b.num * a.den >= a.num * b.den

\* The comparator (a, b) => b[1] - a[1] is positive: b goes before a.
\* Both probabilities are fractions num/den with den > 0.
Before(b, a) == b.num * a.den > a.num * b.den

RECURSIVE InsertStable(_, _)
\* e placed after every entry it does not go before.
InsertStable(sorted, e) ==
    IF sorted = << >> THEN << e >>
    ELSE IF Before(e, Head(sorted)) THEN << e >> \o sorted
    ELSE << Head(sorted) >> \o InsertStable(Tail(sorted), e)

RECURSIVE SortRanked(_, _)
\* Array.prototype.sort with that comparator: a stable sort.
SortRanked(entries, sorted) ==
    IF entries = << >> THEN sorted
    ELSE SortRanked(Tail(entries), InsertStable(sorted, Head(entries)))

\* Lines 571-574
Rank(scores) ==
    LET total == SumScores(scores)
    IN  SortRanked([i \in 1..Len(scores) |->
                      [cause |-> scores[i].cause,
                       num |-> scores[i].score, den |-> total]],
                   << >>)

\* DiagnosticEngine.diagnose(window).  raised is TRUE when the call throws:
\* destructuring ranked[0] of an empty ranked is a TypeError.  explanation
\* and suggested_actions are display strings derived from primary_cause.
diagnose(w) ==
    LET ev0 == RuleEvidences(w)
        st  == UnknownFallback(
                 SecondHealthy([scores |-> Aggregate(ev0, << >>),
                                evidences |-> ev0], w))
        ranked == Rank(st.scores)
    IN  IF ranked = << >>
        THEN [ raised |-> TRUE, primary_cause |-> UNKNOWN,
               confidence |-> [num |-> 0, den |-> 1],
               ranked_causes |-> << >>, contributing_rules |-> st.evidences ]
        ELSE [ raised |-> FALSE,
               primary_cause |-> ranked[1].cause,
               confidence |-> [num |-> ranked[1].num, den |-> ranked[1].den],
               ranked_causes |-> ranked,
               contributing_rules |-> st.evidences ]

---------------------------------------------------------------------------
(* The simulator on its own: any caller, any configuration *)

\* The configurations a caller installs: every on/off combination of the
\* five faults (sync_loss_prob at 0, 0.5 and 1.0), all off or all on with
\* one level negative, and with one level at +Infinity (parseFloat("Infinity"); a finite
\* level above 1.2e307 overflows to it inside step()).
AllOn == [ noise_spike_level |-> PosLevel, jammer_level |-> PosLevel,
           sync_loss_prob |-> 100, congestion_level |-> PosLevel,
           fading_severity |-> PosLevel ]

Configs ==
    [ noise_spike_level : {0, PosLevel}, jammer_level : {0, PosLevel},
      sync_loss_prob : {0, 50, 100}, congestion_level : {0, PosLevel},
      fading_severity : {0, PosLevel} ]
    \cup { [c EXCEPT ![k] = 0 - NegLevel] :
             c \in {FaultConfig, AllOn}, k \in DOMAIN FaultConfig }
    \cup { [c EXCEPT ![k] = PInf] :
             c \in {FaultConfig, AllOn}, k \in DOMAIN FaultConfig }

InitSim ==
    /\ t = 0
    /\ fault_config = FaultConfig
    /\ sample = << >>
    /\ history = << >>
    /\ diagnoses = << >>
    /\ running = FALSE
    /\ timer = 0
    /\ liveTimers = {}
    /\ windowSize = WindowSize
    /\ window = << >>
    /\ diag = << >>

\* A setFaultConfig that also restarts the tick counter.
setFaultConfigRestarting(cfg) ==
    /\ fault_config' = cfg
    /\ t' = 0
    /\ sample' = << >>
    /\ UNCHANGED <<history, diagnoses, running, timer,
                   liveTimers, windowSize, window, diag>>

\* CommLinkSimulator.setFaultConfig(cfg)
setFaultConfig(cfg) ==
    /\ fault_config' = cfg
    /\ sample' = << >>
    /\ UNCHANGED <<t, history, diagnoses, running, timer,
                   liveTimers, windowSize, window, diag>>

\* CommLinkSimulator.step() with the draws d
step(d) ==
    /\ t' = StepTick(t)
    /\ sample' = << StepSample(fault_config, StepTick(t), d) >>
    /\ UNCHANGED <<fault_config, history, diagnoses, running, timer,
                   liveTimers, windowSize, window, diag>>

NextSim ==
    \/ \E cfg \in Configs : setFaultConfig(cfg)
    \/ \E d \in Draws : t < MaxT /\ step(d)

SpecSim == InitSim /\ [][NextSim]_vars

---------------------------------------------------------------------------
(* diagnose as a function of its argument: any WindowStats *)

SnrMeanVals == {NaN, NInf, 2000, 10000, 12000, 15000, 20000, 25000}
SnrStdVals == {NaN, 300, 1800, 2500, 6000, PInf}
BerMeanVals == {NaN, 1000, 100000, 10000000, 300000000}
BerMaxVals == {NaN, 1000, 100000, 10000000, 100000000, 500000000}
LatencyMeanVals == {NaN, 20000, 100000, 200000, PInf}
RetriesMeanVals == {NaN, 0, 1000, 5000}

Windows ==
    [ snr_mean : SnrMeanVals, snr_std : SnrStdVals, ber_mean : BerMeanVals,
      ber_max : BerMaxVals, latency_mean : LatencyMeanVals,
      retries_mean : RetriesMeanVals ]

InitDiag ==
    /\ t = 0
    /\ fault_config = FaultConfig
    /\ sample = << >>
    /\ history = << >>
    /\ diagnoses = << >>
    /\ running = FALSE
    /\ timer = 0
    /\ liveTimers = {}
    /\ windowSize = WindowSize
    /\ window \in { << w >> : w \in Windows }
    /\ diag = << >>

\* diagEngine.diagnose(window)
Diagnose ==
    /\ window # << >>
    /\ diag = << >>
    /\ diag' = << diagnose(window[1]) >>
    /\ UNCHANGED <<t, fault_config, sample, history, diagnoses, running,
                   timer, liveTimers, windowSize, window>>

NextDiag == Diagnose

SpecDiag == InitDiag /\ [][NextDiag]_vars

---------------------------------------------------------------------------
(* windowFrom followed by diagnose: any history, any window size *)

MaxHist == 3

\* The metrics of four samples step() returns: a clean link, a jammed one,
\* a sync outage, and the sample of an infinite jammer level.
SampleVals ==
    { [t |-> 0, snr_db |-> 256, ber |-> 398, latency_ms |-> 180,
       retries |-> 0, active_faults |-> << >>],
      [t |-> 0, snr_db |-> -50, ber |-> 500000000, latency_ms |-> 400,
       retries |-> 14, active_faults |-> << WIDEBAND_JAMMER >>],
      [t |-> 0, snr_db |-> 270, ber |-> 500000000, latency_ms |-> 2755,
       retries |-> 21, active_faults |-> << SYNC_LOSS >>],
      [t |-> 0, snr_db |-> NaN, ber |-> 500000000, latency_ms |-> PInf,
       retries |-> PInf, active_faults |-> << WIDEBAND_JAMMER >>] }

\* Histories of up to MaxHist samples, ticks 1, 2, ...
Histories ==
    UNION { { [i \in 1..n |-> [f[i] EXCEPT !.t = i]] :
                f \in [1..n -> SampleVals] } : n \in 0..MaxHist }

WindowSizes == {0, 1, 2, WindowSize}

InitWindow ==
    /\ t = 0
    /\ fault_config = FaultConfig
    /\ sample = << >>
    /\ history \in Histories
    /\ diagnoses = << >>
    /\ running = FALSE
    /\ timer = 0
    /\ liveTimers = {}
    /\ windowSize \in WindowSizes
    /\ window = << >>
    /\ diag = << >>

\* windowFrom(history, windowSize)
AggregateWindow ==
    /\ window = << >>
    /\ window' = << windowFrom(history, windowSize) >>
    /\ UNCHANGED <<t, fault_config, sample, history, diagnoses, running,
                   timer, liveTimers, windowSize, diag>>

NextWindow == AggregateWindow \/ Diagnose

SpecWindow == InitWindow /\ [][NextWindow]_vars

---------------------------------------------------------------------------
(* Properties of the simulator, under SpecSim *)

InSeq(x, seq) == \E i \in 1..Len(seq) : seq[i] = x

\* C1: for every installed FaultConfig, negative or extreme levels
\* included, and after any number of step() calls, the Sample step()
\* returns has -5 <= snr_db <= 40, 1e-9 <= ber <= 0.5, latency_ms >= 1.0
\* and retries an integer >= 0.
C1_SampleInRange ==
    sample # << >> =>
        LET s == sample[1]
        IN  /\ Ge(s.snr_db, -50) /\ Le(s.snr_db, 400)
            /\ Ge(s.ber, BerFloor) /\ Le(s.ber, BerCap)
            /\ Ge(s.latency_ms, 10)
            /\ IsFin(s.retries) /\ s.retries >= 0

\* C2: with sync_loss_prob = 1.0, whatever the other four levels, every
\* returned sample has its ber in [0.1, 0.9] and its active_faults hold
\* sync_loss and neither congestion nor fading.
C2_OutageOverrides ==
    (sample # << >> /\ fault_config.sync_loss_prob = 100) =>
        LET s == sample[1]
        IN  /\ Ge(s.ber, 100000000) /\ Le(s.ber, 900000000)
            /\ InSeq(SYNC_LOSS, s.active_faults)
            /\ ~InSeq(CONGESTION, s.active_faults)
            /\ ~InSeq(FADING, s.active_faults)

\* A sample of an outage taken with jammer, congestion and fading all on.
C2_Witness ==
    /\ sample # << >>
    /\ fault_config.sync_loss_prob = 100
    /\ Gt(fault_config.jammer_level, 0)
    /\ Gt(fault_config.congestion_level, 0)
    /\ Gt(fault_config.fading_severity, 0)
    /\ InSeq(WIDEBAND_JAMMER, sample[1].active_faults)
    /\ InSeq(SYNC_LOSS, sample[1].active_faults)
    /\ sample[1].ber = BerCap

AllLevelsZero(cfg) == \A k \in DOMAIN cfg : cfg[k] = 0

\* C7: a fault tag is in a sample's active_faults only if that fault's
\* level was > 0 at that step; with all five levels 0 active_faults is
\* empty, after any number of steps.
C7_TagsOnlyIfEnabled ==
    sample # << >> =>
        LET tags == sample[1].active_faults
        IN  /\ InSeq(NOISE_SPIKE, tags) => Gt(fault_config.noise_spike_level, 0)
            /\ InSeq(WIDEBAND_JAMMER, tags) => Gt(fault_config.jammer_level, 0)
            /\ InSeq(SYNC_LOSS, tags) => Gt(fault_config.sync_loss_prob, 0)
            /\ InSeq(CONGESTION, tags) => Gt(fault_config.congestion_level, 0)
            /\ InSeq(FADING, tags) => Gt(fault_config.fading_severity, 0)
            /\ AllLevelsZero(fault_config) => tags = << >>

\* The second sample of a simulator whose levels are all 0.
C7_Witness ==
    /\ sample # << >>
    /\ t = 2
    /\ AllLevelsZero(fault_config)
    /\ sample[1].active_faults = << >>

\* The tags step() pushes under cfg, as far as cfg alone decides them.
TagsFollow(tags, cfg) ==
    /\ InSeq(NOISE_SPIKE, tags) <=> Gt(cfg.noise_spike_level, 0)
    /\ InSeq(WIDEBAND_JAMMER, tags) <=> Gt(cfg.jammer_level, 0)
    /\ InSeq(SYNC_LOSS, tags) => Gt(cfg.sync_loss_prob, 0)
    /\ InSeq(CONGESTION, tags) <=>
           (Gt(cfg.congestion_level, 0) /\ ~InSeq(SYNC_LOSS, tags))
    /\ InSeq(FADING, tags) <=>
           (Gt(cfg.fading_severity, 0) /\ ~InSeq(SYNC_LOSS, tags))

\* C9: setFaultConfig(cfg) changes only the installed configuration: t is
\* left as it was and no sample is produced; the next step() takes its
\* fault tags from cfg, not from the configuration installed before; and
\* step() leaves the installed configuration as it was.
C9_ConfigFrame ==
    [][ /\ fault_config' # fault_config =>
               /\ t' = t
               /\ sample' = << >>
               /\ history' = history
        /\ sample' = << >> => t' = t
        /\ t' # t =>
               /\ fault_config' = fault_config
               /\ sample' # << >>
               /\ TagsFollow(sample'[1].active_faults, fault_config) ]_vars

\* The second sample of a simulator, taken under a configuration that
\* was installed after construction and turns the jammer on alone.
C9_Witness ==
    /\ t = 2
    /\ sample # << >>
    /\ fault_config = [FaultConfig EXCEPT !.jammer_level = PosLevel]
    /\ sample[1].active_faults = << WIDEBAND_JAMMER >>

---------------------------------------------------------------------------
(* Properties of diagnose, under SpecDiag *)

RECURSIVE SumNum(_)
SumNum(ranked) ==
    IF ranked = << >> THEN 0 ELSE Head(ranked).num + SumNum(Tail(ranked))

\* C3: for any WindowStats, NaN fields included, the probabilities of
\* ranked_causes sum to 1, each lies in [0, 1], they are in non-increasing
\* order, and primary_cause and confidence are the first entry.
C3_RankedDistribution ==
    diag # << >> =>
        LET d == diag[1]
            r == d.ranked_causes
        IN  /\ ~d.raised
            /\ Len(r) >= 1
            /\ \A i \in 1..Len(r) :
                   r[i].den > 0 /\ r[i].den = r[1].den
                   /\ 0 <= r[i].num /\ r[i].num <= r[i].den
            /\ SumNum(r) = r[1].den
            /\ \A i \in 1..Len(r) : \A j \in 1..Len(r) :
                   i < j => r[i].num * r[j].den >= r[j].num * r[i].den
            /\ d.primary_cause = r[1].cause
            /\ d.confidence = [num |-> r[1].num, den |-> r[1].den]

\* A diagnosis that ranks three causes with different probabilities, of a
\* window with a NaN field.
C3_Witness ==
    /\ diag # << >>
    /\ IsNaN(window[1].retries_mean)
    /\ Len(diag[1].ranked_causes) >= 3
    /\ diag[1].ranked_causes[1].num > diag[1].ranked_causes[3].num

RuleOrder ==
    << HEALTHY, NOISE_SPIKE, WIDEBAND_JAMMER, SYNC_LOSS, CONGESTION, FADING >>

RuleIndex(cause) ==
    IF InSeq(cause, RuleOrder)
    THEN CHOOSE i \in 1..Len(RuleOrder) : RuleOrder[i] = cause
    ELSE Len(RuleOrder) + 1

\* C6: causes of equal probability stand in ranked_causes in the order of
\* the rule set (healthy, noise_spike, wideband_jammer, sync_loss,
\* congestion, fading), so among tied top causes primary_cause is the one
\* whose rule is tried first.
C6_TiesInRuleOrder ==
    diag # << >> =>
        LET r == diag[1].ranked_causes
        IN  \A i \in 1..Len(r) : \A j \in 1..Len(r) :
                (i < j /\ r[i].num * r[j].den = r[j].num * r[i].den)
                    => RuleIndex(r[i].cause) < RuleIndex(r[j].cause)

\* noise_spike and wideband_jammer tie at the top; noise_spike is primary.
C6_Witness ==
    /\ diag # << >>
    /\ Len(diag[1].ranked_causes) >= 2
    /\ diag[1].ranked_causes[1].num = diag[1].ranked_causes[2].num
    /\ diag[1].primary_cause = NOISE_SPIKE
    /\ diag[1].ranked_causes[2].cause = WIDEBAND_JAMMER

\* C10: the second healthy branch (score 0.8) is never taken: whenever none
\* of the six rules fires the result is unknown with confidence 1.0, also
\* when ber_max < 1e-3 and snr_mean > 20.
C10_SecondHealthyDead ==
    diag # << >> =>
        LET d == diag[1]
        IN  /\ ~InSeq(Evidence(HEALTHY, 800), d.contributing_rules)
            /\ RuleEvidences(window[1]) = << >> =>
                   /\ d.primary_cause = UNKNOWN
                   /\ d.confidence.num = d.confidence.den
                   /\ Len(d.ranked_causes) = 1
                   /\ d.contributing_rules = << Evidence(UNKNOWN, 1000) >>

\* A window that misses the healthy rule only because ber_max lies between
\* 1e-5 and 1e-3, diagnosed unknown.
C10_Witness ==
    /\ diag # << >>
    /\ window[1].snr_mean = 25000
    /\ window[1].ber_max = 100000
    /\ window[1].latency_mean = 20000
    /\ window[1].retries_mean = 0
    /\ diag[1].primary_cause = UNKNOWN

\* C12: the healthy rule excludes each of the five fault rules: on a
\* window where the healthy predicate holds no other predicate holds, so
\* whenever healthy is in ranked_causes it is the only entry, primary_cause
\* is healthy and confidence is exactly 1.0.
C12_HealthyExclusive ==
    diag # << >> =>
        LET d == diag[1]
            w == window[1]
        IN  /\ HealthyRule(w) # << >> =>
                   /\ RuleEvidences(w) = HealthyRule(w)
                   /\ d.contributing_rules = << Evidence(HEALTHY, 1000) >>
            /\ (\E i \in 1..Len(d.ranked_causes) :
                    d.ranked_causes[i].cause = HEALTHY) =>
                   /\ Len(d.ranked_causes) = 1
                   /\ d.primary_cause = HEALTHY
                   /\ d.confidence.num = d.confidence.den

\* A healthy diagnosis of a window whose snr_std and ber_mean are as high
\* as the fading rule asks for.
C12_Witness ==
    /\ diag # << >>
    /\ diag[1].primary_cause = HEALTHY
    /\ window[1].snr_std = 6000
    /\ window[1].ber_mean = 300000000
    /\ window[1].retries_mean = 1000

---------------------------------------------------------------------------
(* Properties of windowFrom followed by diagnose, under SpecWindow *)

AllNaN(w) == \A k \in DOMAIN w : IsNaN(w[k])

\* C4: windowFrom of an empty history has every field NaN, and diagnose of
\* it does not raise and returns unknown with confidence 1.0, the fallback
\* unknown evidence of score 1.0 being the only contributing rule.
C4_EmptyHistoryUnknown ==
    history = << >> =>
        /\ window # << >> => AllNaN(window[1])
        /\ diag # << >> =>
               /\ ~diag[1].raised
               /\ diag[1].primary_cause = UNKNOWN
               /\ diag[1].confidence.num = diag[1].confidence.den
               /\ diag[1].contributing_rules = << Evidence(UNKNOWN, 1000) >>

\* The diagnosis of the window of an empty history.
C4_Witness ==
    /\ history = << >>
    /\ window # << >>
    /\ diag # << >>
    /\ diag[1].primary_cause = UNKNOWN

\* The last k samples of h.
LastSamples(h, k) == SubSeq(h, Len(h) - k + 1, Len(h))

\* C11: for every history and every windowSize >= 0, windowFrom(history,
\* windowSize) is computed over exactly the last min(windowSize, length of
\* history) samples, older samples having no influence on any of its six
\* statistics.
C11_WindowOverTail ==
    window # << >> =>
        LET k == IF windowSize < Len(history) THEN windowSize
                 ELSE Len(history)
            tail == LastSamples(history, k)
        IN  window[1] = windowFrom(tail, Len(tail))

\* windowFrom(history, 0) of a history of two samples: a window whose
\* statistics are numbers, those of both samples, where none was asked for.
C11_ZeroSizeTakesAll ==
    /\ window # << >>
    /\ windowSize = 0
    /\ Len(history) = 2
    /\ window[1] = windowFrom(history, Len(history))
    /\ ~IsNaN(window[1].ber_mean)

---------------------------------------------------------------------------
(* The driver: main, the slider and button handlers, the interval timer *)

MaxDriverT == 4      \* steps taken before the model stops stepping
MaxTimerId == 3      \* interval timers created before the model stops starting

\* The draws of one step() call in the driver.
DriverDraws == { DrawProfile(z, z, z, 0, 0, 0) : z \in RandnVals }

\* The sliders the model moves, and the values it moves them to.
SliderKnobs == {"jammer_level"}
SliderVals(k) == IF k = "sync_loss_prob" THEN {0, 100} ELSE {0, 20}

\* The entry simulateSteps pushes on diagnoses.
DiagnosisEntry(s, dg) ==
    [ t |-> s.t,
      primary_cause |-> dg.primary_cause,
      confidence |-> dg.confidence,
      ranked_causes |-> dg.ranked_causes,
      contributing_rules |-> dg.contributing_rules,
      active_faults |-> s.active_faults ]

\* simulateSteps(n), one draw profile of ds per iteration, from the
\* simulator tick, history and diagnoses of st.
RECURSIVE simulateSteps(_, _, _)
simulateSteps(st, cfg, ds) ==
    IF ds = << >> THEN st
    ELSE LET s == StepSample(cfg, StepTick(st.t), Head(ds))
             h == Append(st.history, s)
             dg == diagnose(windowFrom(h, WindowSize))
         IN  simulateSteps(
                 [ t |-> StepTick(st.t),
                   history |-> h,
                   diagnoses |-> Append(st.diagnoses, DiagnosisEntry(s, dg)) ],
                 cfg, Tail(ds))

DriverState == [ t |-> t, history |-> history, diagnoses |-> diagnoses ]

\* main(): a fresh simulator and engine, the sliders at their zero
\* positions installed by updateFaultConfig().
Init ==
    /\ t = 0
    /\ fault_config = FaultConfig
    /\ sample = << >>
    /\ history = << >>
    /\ diagnoses = << >>
    /\ running = FALSE
    /\ timer = 0
    /\ liveTimers = {}
    /\ windowSize = WindowSize
    /\ window = << >>
    /\ diag = << >>

\* A slider's input event: updateFaultConfig() reads the five sliders,
\* slider k now at v, and installs the result.
updateFaultConfig(k, v) ==
    /\ fault_config' = [fault_config EXCEPT ![k] = v]
    /\ UNCHANGED <<t, sample, history, diagnoses, running, timer,
                   liveTimers, windowSize, window, diag>>

\* clearInterval(timer) behind "if (timer)": null (0) clears nothing.
ClearTimer(live) == IF timer # 0 THEN live \ {timer} ELSE live

startSimulation ==
    IF running
    THEN UNCHANGED vars
    ELSE /\ timer < MaxTimerId
         /\ running' = TRUE
         /\ timer' = timer + 1
         /\ liveTimers' = ClearTimer(liveTimers) \cup {timer + 1}
         /\ UNCHANGED <<t, fault_config, sample, history, diagnoses,
                        windowSize, window, diag>>

\* pauseSimulation without the clearInterval.
pauseSimulationKeepsTimer ==
    /\ running' = FALSE
    /\ UNCHANGED <<t, fault_config, sample, history, diagnoses, timer,
                   liveTimers, windowSize, window, diag>>

pauseSimulation ==
    /\ running' = FALSE
    /\ liveTimers' = ClearTimer(liveTimers)
    /\ UNCHANGED <<t, fault_config, sample, history, diagnoses, timer,
                   windowSize, window, diag>>

stepSimulation(d) ==
    LET st == simulateSteps(DriverState, fault_config, << d >>)
    IN  /\ t' = st.t
        /\ history' = st.history
        /\ diagnoses' = st.diagnoses
        /\ UNCHANGED <<fault_config, sample, running, timer, liveTimers,
                       windowSize, window, diag>>

resetSimulation ==
    /\ running' = FALSE
    /\ liveTimers' = ClearTimer(liveTimers)
    /\ history' = << >>
    /\ diagnoses' = << >>
    /\ UNCHANGED <<t, fault_config, sample, timer, windowSize, window, diag>>

\* The callback of interval timer id: simulateSteps(3).
TimerTick(id, d1, d2, d3) ==
    LET st == simulateSteps(DriverState, fault_config, << d1, d2, d3 >>)
    IN  /\ id \in liveTimers
        /\ t' = st.t
        /\ history' = st.history
        /\ diagnoses' = st.diagnoses
        /\ UNCHANGED <<fault_config, sample, running, timer, liveTimers,
                       windowSize, window, diag>>

Next ==
    \/ \E k \in SliderKnobs : \E v \in SliderVals(k) : updateFaultConfig(k, v)
    \/ startSimulation
    \/ pauseSimulation
    \/ \E d \in DriverDraws : t < MaxDriverT /\ stepSimulation(d)
    \/ resetSimulation
    \/ \E id \in 1..MaxTimerId : \E d1 \in DriverDraws, d2 \in DriverDraws,
           d3 \in DriverDraws : t + 3 <= MaxDriverT /\ TimerTick(id, d1, d2, d3)

Spec == Init /\ [][Next]_vars

\* C8: t starts at 0 and each step() advances it by exactly 1, whatever
\* setFaultConfig() calls come in between, so the k-th step() returns a
\* sample with t = k, and the t values of the samples appended to history
\* are strictly increasing.
C8_TickCounts ==
    /\ [](t >= 0)
    /\ [](\A i \in 1..Len(history) : \A j \in 1..Len(history) :
             i < j => history[i].t < history[j].t)
    /\ [](history # << >> => history[Len(history)].t = t)
    /\ [][ /\ t' >= t
           /\ Len(history') > Len(history) =>
                  /\ t' - t = Len(history') - Len(history)
                  /\ \A i \in 1..(t' - t) : history'[Len(history) + i].t = t + i
           /\ t' # t => Len(history') = Len(history) + (t' - t)
           /\ fault_config' # fault_config => t' = t ]_vars

\* A history of four samples, taken under two configurations.
C8_Witness ==
    /\ Len(history) = 4
    /\ t = 4
    /\ history[1].active_faults # history[4].active_faults

\* C13: after any sequence of Start, Pause, Step and Reset clicks and timer
\* ticks at most one interval timer is live, and one is live exactly when
\* running is true; a Start while running creates no timer; and while not
\* running history grows only by the one sample of a Step click, never by
\* the three of a timer tick.
C13_OneTimerIffRunning ==
    /\ [](Cardinality(liveTimers) <= 1)
    /\ [](running <=> liveTimers # {})
    /\ [](running => liveTimers = {timer})
    /\ [][ /\ running => (liveTimers' \subseteq liveTimers /\ timer' = timer)
           /\ (~running /\ Len(history') > Len(history)) =>
                  /\ Len(history') = Len(history) + 1
                  /\ ~running'
                  /\ liveTimers' = {} ]_vars

\* Paused after a second Start, with four samples in history.
C13_Witness ==
    /\ ~running
    /\ timer = 2
    /\ liveTimers = {}
    /\ Len(history) = 4

---------------------------------------------------------------------------
(* The jammer scenario: jammer_level 2.0 alone, a window's worth of steps
   from a fresh simulator, then windowFrom(history, 20) and diagnose *)

JamSteps == WindowSize

MaxUnclipped == 2    \* steps of a run whose SNR stays above the -5 dB clip

JamConfig == [FaultConfig EXCEPT !.jammer_level = 20]

\* The draws of one step(): the SNR draws take either sign, which decides
\* whether the jammed SNR is clipped to -5 dB; the others are fixed.
JamDraws ==
    { DrawProfile(zs, 0 - MaxRandn, MaxRandn, MaxPoisson, 0, 0) :
        zs \in RandnVals }

RECURSIVE Unclipped(_)
Unclipped(h) ==
    IF h = << >> THEN 0
    ELSE (IF Gt(Head(h).snr_db, -50) THEN 1 ELSE 0) + Unclipped(Tail(h))

InitJam ==
    /\ t = 0
    /\ fault_config = JamConfig
    /\ sample = << >>
    /\ history = << >>
    /\ diagnoses = << >>
    /\ running = FALSE
    /\ timer = 0
    /\ liveTimers = {}
    /\ windowSize = WindowSize
    /\ window = << >>
    /\ diag = << >>

\* One step() whose sample is pushed on history.
JamStep(d) ==
    LET s == StepSample(fault_config, StepTick(t), d)
    IN  /\ Len(history) < JamSteps
        /\ Unclipped(Append(history, s)) <= MaxUnclipped
        /\ t' = StepTick(t)
        /\ sample' = << s >>
        /\ history' = Append(history, s)
        /\ UNCHANGED <<fault_config, diagnoses, running, timer, liveTimers,
                       windowSize, window, diag>>

\* windowFrom(history, 20) and diagnose on the final window.
JamDiagnose ==
    /\ Len(history) = JamSteps
    /\ diag = << >>
    /\ window' = << windowFrom(history, windowSize) >>
    /\ diag' = << diagnose(windowFrom(history, windowSize)) >>
    /\ UNCHANGED <<t, fault_config, sample, history, diagnoses, running,
                   timer, liveTimers, windowSize>>

NextJam ==
    \/ \E d \in JamDraws : JamStep(d)
    \/ JamDiagnose

SpecJam == InitJam /\ [][NextJam]_vars

\* C5: with jammer_level 2.0 alone, run for 20 step() calls from a fresh
\* simulator, every sample's active_faults holds wideband_jammer, snr_mean
\* of windowFrom(history, 20) is below 12 dB, and diagnose of that window
\* returns wideband_jammer with confidence > 0.5, whatever the draws.
C5_JammerDiagnosed ==
    /\ \A i \in 1..Len(history) :
           InSeq(WIDEBAND_JAMMER, history[i].active_faults)
    /\ diag # << >> =>
           /\ Lt(window[1].snr_mean, moderate_snr_db)
           /\ diag[1].primary_cause = WIDEBAND_JAMMER
           /\ 2 * diag[1].confidence.num > diag[1].confidence.den

\* A run with one unclipped step: noise_spike ties with wideband_jammer
\* and comes first.
C5_MixedRunMisdiagnosed ==
    /\ diag # << >>
    /\ Unclipped(history) = 1
    /\ diag[1].primary_cause = NOISE_SPIKE
    /\ diag[1].ranked_causes[2].cause = WIDEBAND_JAMMER
    /\ diag[1].ranked_causes[1].num = diag[1].ranked_causes[2].num

===========================================================================
